---- MODULE Spec2Model ----
(***************************************************************************)
(* Conway's game of life: the class-based engine (game_of_life.py, class   *)
(* Game) and the animation script (game_of_life_anim.py).                  *)
(*                                                                         *)
(* Arrays are sequences of rows, rows are sequences of cells.  Python      *)
(* indices are 0-based and a negative index counts from the end; an index  *)
(* outside [-len, len) raises IndexError.                                  *)
(***************************************************************************)
EXTENDS Integers, Sequences, FiniteSets

VARIABLES
    prog,        \* which program runs: "game" (class Game) or "anim" (the script)
    width,       \* Game.width
    height,      \* Game.height
    state,       \* Game.state
    temp_state,  \* Game.temp_state
    supplied,    \* the 'state' keyword argument of the constructor call, while op = "init"
    pc,          \* "failed" (the constructor raised), "idle", "steps", "save", "raised"
    num,         \* argument of the running process_steps / process_steps_and_save_states
    step,        \* loop variable of the running driver: iterations completed
    shown,       \* boards printed by display_state during the running process_steps
    states,      \* the list built by process_steps_and_save_states
    g0,          \* self.state when the running driver was called
    ret,         \* TRUE when a caller holds the array returned by process_step
    q,           \* the last direct call of get_neighbors / is_cell_alive and its result
    pattern,     \* the test pattern the game was constructed from, or "none"
    grid,        \* the animation script's global grid
    w,           \* the animation script's global w
    h,           \* the animation script's global h
    op,          \* the operation that produced this state
    twin         \* a second Game constructed from the same supplied state, if any

vars == <<prog, width, height, state, temp_state, supplied, pc, num, step, shown,
          states, g0, ret, q, pattern, grid, w, h, op, twin>>

gameVars == <<width, height, state, temp_state, supplied, pc, num, step, shown,
              states, g0, ret, q, pattern>>

(***************************************************************************)
(* Bounds of the model.                                                    *)
(***************************************************************************)
MaxWidth == 3
MaxHeight == 3
MaxCells == 9
MaxRagged == 4
MaxNum == 2
MaxTwin == 2

(***************************************************************************)
(* Program constants.                                                      *)
(***************************************************************************)
on == 1
off == 0
opts == {on, off}

symbols == [v \in {0, 1} |-> IF v = 0 THEN " ." ELSE " o"]

(***************************************************************************)
(* Python subscripting.                                                    *)
(***************************************************************************)
InRange(s, i) == -Len(s) <= i /\ i < Len(s)

At(s, i) == s[IF i >= 0 THEN i + 1 ELSE Len(s) + i + 1]

InRange2(a, r, c) == InRange(a, r) /\ InRange(At(a, r), c)

At2(a, r, c) == At(At(a, r), c)

SetAt2(a, r, c, v) ==
    LET i == IF r >= 0 THEN r + 1 ELSE Len(a) + r + 1
        j == IF c >= 0 THEN c + 1 ELSE Len(a[i]) + c + 1
    IN  [a EXCEPT ![i] = [a[i] EXCEPT ![j] = v]]

\* All arrays of 'rows' rows of 'cols' cells.
AllGrids(rows, cols) == [1..rows -> [1..cols -> opts]]

(***************************************************************************)
(* class Game                                                              *)
(***************************************************************************)

\* The eight (row, col) pairs of the 'indices' dictionary.
indices(row, col) ==
    { <<row - 1, col - 1>>, <<row - 1, col>>, <<row - 1, col + 1>>,
      <<row, col - 1>>, <<row, col + 1>>,
      <<row + 1, col - 1>>, <<row + 1, col>>, <<row + 1, col + 1>> }

\* get_neighbors with the cell itself counted among its neighbours.
get_neighbors_with_self(st, wd, ht, row, col) ==
    LET sel == { p \in indices(row, col) \cup {<<row, col>>} :
                    0 <= p[1] /\ p[1] < wd /\ 0 <= p[2] /\ p[2] < ht }
    IN  IF \E p \in sel : ~InRange2(st, p[1], p[2])
        THEN [err |-> TRUE, val |-> 0]
        ELSE [err |-> FALSE,
              val |-> Cardinality({ p \in sel : At2(st, p[1], p[2]) # 0 })]

\* get_neighbors without the lower bounds 0 <= r and 0 <= c: negative indices
\* reach the subscript and wrap around.
get_neighbors_no_lower_bound(st, wd, ht, row, col) ==
    LET sel == { p \in indices(row, col) : p[1] < wd /\ p[2] < ht }
    IN  IF \E p \in sel : ~InRange2(st, p[1], p[2])
        THEN [err |-> TRUE, val |-> 0]
        ELSE [err |-> FALSE,
              val |-> Cardinality({ p \in sel : At2(st, p[1], p[2]) # 0 })]

\* Game.get_neighbors: the first index is compared with self.width and the
\* second with self.height; every pair that passes is subscripted.
get_neighbors(st, wd, ht, row, col) ==
    LET sel == { p \in indices(row, col) :
                    0 <= p[1] /\ p[1] < wd /\ 0 <= p[2] /\ p[2] < ht }
    IN  IF \E p \in sel : ~InRange2(st, p[1], p[2])
        THEN [err |-> TRUE, val |-> 0]
        ELSE [err |-> FALSE,
              val |-> Cardinality({ p \in sel : At2(st, p[1], p[2]) # 0 })]

\* fate with overcrowding starting at five neighbours instead of four.
fate_crowded_above_four(alive, neighbors) ==
    IF alive # 0
    THEN IF neighbors < 2 \/ neighbors > 4 THEN off ELSE on
    ELSE IF neighbors = 3 THEN on ELSE off

\* fate with the birth test loosened to "three or more".
fate_born_at_least_three(alive, neighbors) ==
    IF alive # 0
    THEN IF neighbors < 2 \/ neighbors > 3 THEN off ELSE on
    ELSE IF neighbors >= 3 THEN on ELSE off

\* The branches of is_cell_alive once the cell and its count are known.
fate(alive, neighbors) ==
    IF alive # 0
    THEN IF neighbors < 2 \/ neighbors > 3 THEN off ELSE on
    ELSE IF neighbors = 3 THEN on ELSE off

\* Game.is_cell_alive.
is_cell_alive(st, wd, ht, row, col) ==
    IF ~InRange2(st, row, col)
    THEN [err |-> TRUE, val |-> 0]
    ELSE LET n == get_neighbors(st, wd, ht, row, col)
         IN  IF n.err
             THEN [err |-> TRUE, val |-> 0]
             ELSE [err |-> FALSE, val |-> fate(At2(st, row, col), n.val)]

\* The cell of the k-th iteration of the loops of process_step:
\* for row in range(width): for col in range(height).
process_step_cell(ht, k) == <<k \div ht, k % ht>>

\* process_step as a sweep in place: cells are read from the array being written.
RECURSIVE process_step_in_place(_, _, _, _, _)
process_step_in_place(st, tmp, wd, ht, k) ==
    IF k >= wd * ht
    THEN [err |-> FALSE, temp |-> tmp]
    ELSE LET row == process_step_cell(ht, k)[1]
             col == process_step_cell(ht, k)[2]
             a == is_cell_alive(tmp, wd, ht, row, col)
         IN  IF a.err \/ ~InRange2(tmp, row, col)
             THEN [err |-> TRUE, temp |-> tmp]
             ELSE process_step_in_place(st, SetAt2(tmp, row, col, a.val), wd, ht, k + 1)

\* The loop of Game.process_step from its k-th iteration on
\* (the cell process_step_cell(height, k)): cells are read from st and
\* written to tmp; an IndexError leaves tmp as far as it was written.
RECURSIVE process_step_from(_, _, _, _, _)
process_step_from(st, tmp, wd, ht, k) ==
    IF k >= wd * ht
    THEN [err |-> FALSE, temp |-> tmp]
    ELSE LET row == process_step_cell(ht, k)[1]
             col == process_step_cell(ht, k)[2]
             a == is_cell_alive(st, wd, ht, row, col)
         IN  IF a.err \/ ~InRange2(tmp, row, col)
             THEN [err |-> TRUE, temp |-> tmp]
             ELSE process_step_from(st, SetAt2(tmp, row, col, a.val), wd, ht, k + 1)

\* Game.process_step: the new contents of self.temp_state, which is also
\* the array the method returns.
process_step(st, tmp, wd, ht) == process_step_from(st, tmp, wd, ht, 0)

\* Game.display_state: line 'row' of the output holds the symbols of
\* state[col][row] for col in range(width).
display_state(st, wd, ht) ==
    IF \E row \in 0..(ht - 1), col \in 0..(wd - 1) : ~InRange2(st, col, row)
    THEN [err |-> TRUE, out |-> <<>>]
    ELSE [err |-> FALSE,
          out |-> [i \in 1..ht |-> [j \in 1..wd |-> symbols[At2(st, j - 1, i - 1)]]]]

\* np.array(state) of validate_state: a new array with the same cells.
np_array(arr) == [i \in 1..Len(arr) |-> [j \in 1..Len(arr[i]) |-> arr[i][j]]]

\* The two assertions of Game.validate_state.
validate_ok(arr, wd, ht) == Len(arr) = ht /\ Len(arr[1]) = wd

\* kwargs.get('state', 0) is true: a state was given and it is not empty.
state_given(sup) == sup.given /\ sup.arr # <<>>

\* generate_state reshaping to (h, w) instead of (w, h).
generate_state_transposed(wd, ht) == AllGrids(ht, wd)

\* Game.generate_state: the arrays np.random.choice(...).reshape(w, h) can give.
generate_state(wd, ht) == AllGrids(wd, ht)

\* copy.deepcopy of an array: a new array with the same cells.
deepcopy(arr) == [i \in 1..Len(arr) |-> [j \in 1..Len(arr[i]) |-> arr[i][j]]]

(***************************************************************************)
(* The patterns of test_example_patterns that are defined and small.       *)
(***************************************************************************)
PatternNames == {"block", "beehive", "blinker", "toad", "beacon"}

PatternState(name) ==
    CASE name = "block" ->
            << <<0, 0, 0, 0>>,
               <<0, 1, 1, 0>>,
               <<0, 1, 1, 0>>,
               <<0, 0, 0, 0>> >>
      [] name = "beehive" ->
            << <<0, 0, 0, 0, 0, 0>>,
               <<0, 0, 1, 1, 0, 0>>,
               <<0, 1, 0, 0, 1, 0>>,
               <<0, 0, 1, 1, 0, 0>>,
               <<0, 0, 0, 0, 0, 0>> >>
      [] name = "blinker" ->
            << <<0, 0, 0, 0, 0>>,
               <<0, 0, 1, 0, 0>>,
               <<0, 0, 1, 0, 0>>,
               <<0, 0, 1, 0, 0>>,
               <<0, 0, 0, 0, 0>> >>
      [] name = "toad" ->
            << <<0, 0, 0, 0, 0, 0>>,
               <<0, 0, 0, 0, 0, 0>>,
               <<0, 0, 1, 1, 1, 0>>,
               <<0, 1, 1, 1, 0, 0>>,
               <<0, 0, 0, 0, 0, 0>>,
               <<0, 0, 0, 0, 0, 0>> >>
      [] name = "beacon" ->
            << <<0, 0, 0, 0, 0, 0>>,
               <<0, 1, 1, 0, 0, 0>>,
               <<0, 1, 1, 0, 0, 0>>,
               <<0, 0, 0, 1, 1, 0>>,
               <<0, 0, 0, 1, 1, 0>>,
               <<0, 0, 0, 0, 0, 0>> >>

\* The 'steps' the test passes to process_steps for each pattern.
PatternSteps(name) ==
    CASE name = "block" -> 3
      [] name = "beehive" -> 3
      [] name = "blinker" -> 4
      [] name = "toad" -> 4
      [] name = "beacon" -> 4

(***************************************************************************)
(* Initial states: the state right after Game(width, height[, state]), or  *)
(* after the animation script has drawn its grid.                          *)
(***************************************************************************)
NoQuery == [f |-> "none", row |-> 0, col |-> 0, err |-> FALSE, val |-> 0]

NoState == [given |-> FALSE, arr |-> <<>>]

NoTwin == [made |-> FALSE, state |-> <<>>, temp_state |-> <<>>, step |-> 0,
           pc |-> "idle", calls |-> 0, first |-> <<>>]

\* The (width, height) pairs of the model.
Shapes == { s \in (1..MaxWidth) \X (1..MaxHeight) : s[1] * s[2] <= MaxCells }

\* A well-shaped array with one row made one cell shorter or one cell longer.
Ragged(arr) ==
    { [arr EXCEPT ![i] = SubSeq(arr[i], 1, Len(arr[i]) - 1)] : i \in 1..Len(arr) }
    \cup { [arr EXCEPT ![i] = Append(arr[i], b)] : i \in 1..Len(arr), b \in opts }

\* Game.__init__ with the keyword arguments width = wd, height = ht, state = sup.
Construct(wd, ht, sup, name) ==
    /\ prog = "game"
    /\ width = wd
    /\ height = ht
    /\ supplied = sup
    /\ pattern = name
    /\ IF state_given(sup)
       THEN IF validate_ok(sup.arr, wd, ht)
            THEN state = np_array(sup.arr) /\ pc = "idle"
            ELSE state = <<>> /\ pc = "failed"
       ELSE state \in generate_state(wd, ht) /\ pc = "idle"
    /\ temp_state = deepcopy(state)
    /\ num = 0 /\ step = 0 /\ shown = <<>> /\ states = <<>> /\ g0 = <<>>
    /\ ret = FALSE /\ q = NoQuery
    /\ grid = <<>> /\ w = 0 /\ h = 0
    /\ op = "init"

\* Game(width, height): no state is given.
InitRandom == \E s \in Shapes : Construct(s[1], s[2], NoState, "none")

\* Game(width, height, state = arr) with a rectangular or an empty arr.
InitSupplied ==
    \E s \in Shapes :
        \E arr \in {<<>>} \cup UNION { AllGrids(a[2], a[1]) : a \in Shapes } :
            Construct(s[1], s[2], [given |-> TRUE, arr |-> arr], "none")

\* Game(width, height, state = arr) with rows of unequal length (arrays of at
\* most MaxRagged cells before one row is changed).
InitRagged ==
    \E s \in { t \in Shapes : t[1] * t[2] <= MaxRagged } :
        \E rect \in AllGrids(s[2], s[1]) :
            \E arr \in Ragged(rect) :
                Construct(s[1], s[2], [given |-> TRUE, arr |-> arr], "none")

\* test_example_patterns(name): width and height are taken from the state.
InitPattern ==
    \E name \in PatternNames :
        Construct(Len(PatternState(name)[1]), Len(PatternState(name)),
                  [given |-> TRUE, arr |-> PatternState(name)], name)

\* The animation script: w = h, grid = np.random.choice(...).reshape(w, h).
InitAnim ==
    /\ prog = "anim"
    /\ \E s \in Shapes : s[1] = s[2] /\ w = s[1] /\ h = s[2]
    /\ grid \in AllGrids(w, h)
    /\ width = 0 /\ height = 0 /\ state = <<>> /\ temp_state = <<>>
    /\ supplied = NoState /\ pattern = "none" /\ pc = "idle"
    /\ num = 0 /\ step = 0 /\ shown = <<>> /\ states = <<>> /\ g0 = <<>>
    /\ ret = FALSE /\ q = NoQuery
    /\ op = "init"

Init ==
    /\ InitRandom \/ InitSupplied \/ InitRagged \/ InitPattern \/ InitAnim
    /\ twin = NoTwin

(***************************************************************************)
(* The animation script.                                                   *)
(***************************************************************************)

\* The script's get_neighbors with the upper bounds off by one (r <= h, c <= w).
anim_get_neighbors_inclusive(gr, hh, ww, row, col) ==
    LET sel == { p \in indices(row, col) :
                    0 <= p[1] /\ p[1] <= hh /\ 0 <= p[2] /\ p[2] <= ww }
    IN  IF \E p \in sel : ~InRange2(gr, p[1], p[2])
        THEN [err |-> TRUE, val |-> 0]
        ELSE [err |-> FALSE,
              val |-> Cardinality({ p \in sel : At2(gr, p[1], p[2]) # 0 })]

\* get_neighbors of the script: the first index is compared with h and the
\* second with w.
anim_get_neighbors(gr, hh, ww, row, col) ==
    LET sel == { p \in indices(row, col) :
                    0 <= p[1] /\ p[1] < hh /\ 0 <= p[2] /\ p[2] < ww }
    IN  IF \E p \in sel : ~InRange2(gr, p[1], p[2])
        THEN [err |-> TRUE, val |-> 0]
        ELSE [err |-> FALSE,
              val |-> Cardinality({ p \in sel : At2(gr, p[1], p[2]) # 0 })]

\* is_cell_alive of the script.
anim_is_cell_alive(gr, hh, ww, row, col) ==
    IF ~InRange2(gr, row, col)
    THEN [err |-> TRUE, val |-> 0]
    ELSE LET n == anim_get_neighbors(gr, hh, ww, row, col)
             alive == At2(gr, row, col)
         IN  IF n.err
             THEN [err |-> TRUE, val |-> 0]
             ELSE [err |-> FALSE,
                   val |-> IF alive # 0
                           THEN IF n.val < 2 \/ n.val > 3 THEN off ELSE on
                           ELSE IF n.val = 3 THEN on ELSE off]

\* The loop of update from its k-th iteration on (row = k div w, col = k mod w).
RECURSIVE update_from(_, _, _, _, _)
update_from(gr, tmp, hh, ww, k) ==
    IF k >= hh * ww
    THEN [err |-> FALSE, temp |-> tmp]
    ELSE LET row == k \div ww
             col == k % ww
             a == anim_is_cell_alive(gr, hh, ww, row, col)
         IN  IF a.err \/ ~InRange2(tmp, row, col)
             THEN [err |-> TRUE, temp |-> tmp]
             ELSE update_from(gr, SetAt2(tmp, row, col, a.val), hh, ww, k + 1)

\* update(data): the array that becomes the new global grid.
update(gr, hh, ww) == update_from(gr, deepcopy(gr), hh, ww, 0)

(***************************************************************************)
(* Operations.                                                             *)
(***************************************************************************)
Idle == prog = "game" /\ pc = "idle"

\* A caller calls g.process_step() and keeps the returned array.
CallProcessStep ==
    /\ Idle
    /\ LET r == process_step(state, temp_state, width, height)
       IN  /\ temp_state' = r.temp
           /\ IF r.err
              THEN pc' = "raised" /\ ret' = ret
              ELSE pc' = pc /\ ret' = TRUE
    /\ q' = NoQuery
    /\ supplied' = NoState
    /\ op' = "process_step"
    /\ UNCHANGED <<twin, prog, width, height, state, num, step, shown, states,
                   g0, pattern, grid, w, h>>

\* g.process_steps(n) up to its loop: the initial board is displayed.
ProcessStepsBegin(n) ==
    /\ Idle
    /\ LET d == display_state(state, width, height)
       IN  IF d.err
           THEN pc' = "raised" /\ shown' = <<>>
           ELSE pc' = "steps" /\ shown' = <<d.out>>
    /\ num' = n
    /\ step' = 0
    /\ g0' = state
    /\ q' = NoQuery
    /\ supplied' = NoState
    /\ op' = "process_steps"
    /\ UNCHANGED <<twin, prog, width, height, state, temp_state, states,
                   ret, pattern, grid, w, h>>

\* One iteration of the loop of process_steps.
ProcessStepsIter ==
    /\ prog = "game" /\ pc = "steps" /\ step < num
    /\ LET r == process_step(state, temp_state, width, height)
           d == display_state(deepcopy(r.temp), width, height)
       IN  /\ temp_state' = r.temp
           /\ IF r.err
              THEN pc' = "raised" /\ UNCHANGED <<state, shown, step>>
              ELSE /\ state' = deepcopy(r.temp)
                   /\ IF d.err
                      THEN pc' = "raised" /\ UNCHANGED <<shown, step>>
                      ELSE pc' = pc /\ shown' = Append(shown, d.out) /\ step' = step + 1
    /\ supplied' = NoState
    /\ op' = "steps_iter"
    /\ UNCHANGED <<twin, prog, width, height, num, states, g0, ret, q,
                   pattern, grid, w, h>>

\* process_steps returns when its loop is exhausted; its locals are gone.
ProcessStepsReturn ==
    /\ prog = "game" /\ pc = "steps" /\ step = num
    /\ pc' = "idle"
    /\ num' = 0 /\ step' = 0 /\ shown' = <<>> /\ g0' = <<>>
    /\ supplied' = NoState
    /\ op' = "steps_return"
    /\ UNCHANGED <<twin, prog, width, height, state, temp_state, states, ret, q, pattern, grid, w, h>>

\* g.process_steps_and_save_states(n) up to its loop.
SaveStatesBegin(n) ==
    /\ Idle
    /\ pc' = "save"
    /\ states' = <<>>
    /\ num' = n
    /\ step' = 0
    /\ g0' = state
    /\ q' = NoQuery
    /\ supplied' = NoState
    /\ op' = "save_states"
    /\ UNCHANGED <<twin, prog, width, height, state, temp_state, shown,
                   ret, pattern, grid, w, h>>

\* One iteration of the loop of process_steps_and_save_states.
SaveStatesIter ==
    /\ prog = "game" /\ pc = "save" /\ step < num
    /\ LET r == process_step(state, temp_state, width, height)
       IN  /\ temp_state' = r.temp
           /\ IF r.err
              THEN pc' = "raised" /\ UNCHANGED <<state, states, step>>
              ELSE /\ state' = deepcopy(r.temp)
                   /\ states' = Append(states, state')
                   /\ step' = step + 1
                   /\ pc' = pc
    /\ supplied' = NoState
    /\ op' = "save_iter"
    /\ UNCHANGED <<twin, prog, width, height, num, shown, g0, ret, q,
                   pattern, grid, w, h>>

\* process_steps_and_save_states after its loop: the saved grids are printed,
\* states[m][col][row] for row in range(height), col in range(width).
SaveStatesReturn ==
    /\ prog = "game" /\ pc = "save" /\ step = num
    /\ pc' = IF \E m \in 1..Len(states) : display_state(states[m], width, height).err
             THEN "raised" ELSE "idle"
    /\ num' = 0 /\ step' = 0 /\ states' = <<>> /\ g0' = <<>>
    /\ supplied' = NoState
    /\ op' = "save_return"
    /\ UNCHANGED <<twin, prog, width, height, state, temp_state, shown, ret, q, pattern, grid, w, h>>

\* A caller calls g.get_neighbors(row, col).
CallGetNeighbors(row, col) ==
    /\ Idle /\ q = NoQuery
    /\ LET r == get_neighbors(state, width, height, row, col)
       IN  /\ q' = [f |-> "get_neighbors", row |-> row, col |-> col,
                    err |-> r.err, val |-> r.val]
           /\ pc' = IF r.err THEN "raised" ELSE pc
    /\ supplied' = NoState
    /\ op' = "get_neighbors"
    /\ UNCHANGED <<twin, prog, width, height, state, temp_state, num, step, shown,
                   states, g0, ret, pattern, grid, w, h>>

\* A caller calls g.is_cell_alive(row, col).
CallIsCellAlive(row, col) ==
    /\ Idle /\ q = NoQuery
    /\ LET r == is_cell_alive(state, width, height, row, col)
       IN  /\ q' = [f |-> "is_cell_alive", row |-> row, col |-> col,
                    err |-> r.err, val |-> r.val]
           /\ pc' = IF r.err THEN "raised" ELSE pc
    /\ supplied' = NoState
    /\ op' = "is_cell_alive"
    /\ UNCHANGED <<twin, prog, width, height, state, temp_state, num, step, shown,
                   states, g0, ret, pattern, grid, w, h>>

\* One tick of the animation: update(data).
AnimUpdate ==
    /\ prog = "anim" /\ pc = "idle"
    /\ LET r == update(grid, h, w)
       IN  IF r.err
           THEN pc' = "raised" /\ grid' = grid
           ELSE pc' = pc /\ grid' = r.temp
    /\ op' = "update"
    /\ UNCHANGED <<twin, prog, w, h, gameVars>>

\* The step counts a caller passes to the drivers.
Nums == (0..MaxNum) \cup { PatternSteps(nm) : nm \in PatternNames \cap {pattern} }

\* The coordinates a caller passes: the cells and one position beyond each edge.
Coords == (-1..width) \X (-1..height)

Next ==
    \/ CallProcessStep
    \/ \E n \in Nums : ProcessStepsBegin(n)
    \/ ProcessStepsIter
    \/ ProcessStepsReturn
    \/ \E n \in Nums : SaveStatesBegin(n)
    \/ SaveStatesIter
    \/ SaveStatesReturn
    \/ AnimUpdate

Spec == Init /\ [][Next]_vars

\* The operations of the class alone, on a game constructed without a state.
NextGame ==
    \/ CallProcessStep
    \/ \E n \in Nums : ProcessStepsBegin(n)
    \/ ProcessStepsIter
    \/ ProcessStepsReturn
    \/ \E n \in Nums : SaveStatesBegin(n)
    \/ SaveStatesIter
    \/ SaveStatesReturn

\* g = Game(width, height) alone.
InitGame ==
    /\ InitRandom
    /\ twin = NoTwin

SpecRandom == InitGame /\ [][NextGame]_vars

\* Direct calls of the two cell methods on a freshly constructed game.  Neither
\* method changes the game, so one call per behaviour shows all they can return.
NextCells ==
    \/ \E c \in Coords : CallGetNeighbors(c[1], c[2])
    \/ \E c \in Coords : CallIsCellAlive(c[1], c[2])

SpecCells == Init /\ [][NextCells]_vars

(***************************************************************************)
(* Two games constructed from the same supplied state.  Each is advanced   *)
(* by the statement of the drivers, self.state = deepcopy(process_step()); *)
(* the twin's caller also calls process_step directly, which leaves the    *)
(* twin's temp_state different from the first game's.                      *)
(***************************************************************************)

\* g1 = Game(width, height, state = arr); g2 = Game(width, height, state = arr),
\* arr not empty and accepted by validate_state.
InitTwin ==
    /\ InitSupplied \/ InitRagged \/ InitPattern
    /\ pc = "idle"
    /\ state_given(supplied)
    /\ twin = [made |-> TRUE, state |-> np_array(supplied.arr),
               temp_state |-> deepcopy(np_array(supplied.arr)), step |-> 0,
               pc |-> "idle", calls |-> 0, first |-> <<>>]

\* g1.state = deepcopy(g1.process_step()); 'step' counts these.
StepOne ==
    /\ Idle /\ twin.made /\ step < MaxTwin
    /\ LET r == process_step(state, temp_state, width, height)
       IN  /\ temp_state' = r.temp
           /\ IF r.err
              THEN pc' = "raised" /\ UNCHANGED <<state, step>>
              ELSE pc' = pc /\ state' = deepcopy(r.temp) /\ step' = step + 1
    /\ supplied' = NoState
    /\ op' = "step_one"
    /\ UNCHANGED <<twin, prog, width, height, num, shown, states, g0, ret, q, pattern,
                   grid, w, h>>

\* g2.state = deepcopy(g2.process_step()).
StepTwin ==
    /\ prog = "game" /\ twin.made /\ twin.pc = "idle" /\ twin.step < MaxTwin
    /\ LET r == process_step(twin.state, twin.temp_state, width, height)
       IN  twin' = IF r.err
                   THEN [twin EXCEPT !.temp_state = r.temp, !.pc = "raised"]
                   ELSE [twin EXCEPT !.temp_state = r.temp, !.state = deepcopy(r.temp),
                                     !.step = @ + 1, !.calls = 0, !.first = <<>>]
    /\ supplied' = NoState
    /\ op' = "step_twin"
    /\ UNCHANGED <<prog, width, height, state, temp_state, pc, num, step, shown, states,
                   g0, ret, q, pattern, grid, w, h>>

\* g2.process_step() called directly, at most twice between two reassignments of
\* g2.state; 'first' is the grid the first of these calls returned.
CallTwin ==
    /\ prog = "game" /\ twin.made /\ twin.pc = "idle" /\ twin.calls < 2
    /\ LET r == process_step(twin.state, twin.temp_state, width, height)
       IN  twin' = IF r.err
                   THEN [twin EXCEPT !.temp_state = r.temp, !.pc = "raised"]
                   ELSE [twin EXCEPT !.temp_state = r.temp, !.calls = @ + 1,
                                     !.first = IF twin.calls = 0 THEN r.temp ELSE @]
    /\ supplied' = NoState
    /\ op' = "call_twin"
    /\ UNCHANGED <<prog, width, height, state, temp_state, pc, num, step, shown, states,
                   g0, ret, q, pattern, grid, w, h>>

NextTwin == StepOne \/ StepTwin \/ CallTwin

SpecTwin == InitTwin /\ [][NextTwin]_vars

(***************************************************************************)
(* What the claims are stated against: the rules of the game on a          *)
(* rectangular array, bounded by the array's own extent.                   *)
(***************************************************************************)
IsRect(a) == Len(a) > 0 /\ \A i \in 1..Len(a) : Len(a[i]) = Len(a[1]) /\ Len(a[i]) > 0

\* a has exactly 'rows' rows of exactly 'cols' values, each 0 or 1.
IsGrid(a, rows, cols) ==
    /\ Len(a) = rows
    /\ \A i \in 1..Len(a) : Len(a[i]) = cols /\ \A j \in 1..cols : a[i][j] \in {0, 1}

\* The alive cells among the up to eight in-bounds neighbours of (r, c), 0-based.
LiveNeighbours(a, r, c) ==
    Cardinality({ p \in ((r - 1)..(r + 1)) \X ((c - 1)..(c + 1)) :
                    /\ p # <<r, c>>
                    /\ 0 <= p[1] /\ p[1] < Len(a)
                    /\ 0 <= p[2] /\ p[2] < Len(a[1])
                    /\ a[p[1] + 1][p[2] + 1] = 1 })

Rule(alive, n) ==
    IF alive = 1 THEN (IF n \in {2, 3} THEN 1 ELSE 0)
                 ELSE (IF n = 3 THEN 1 ELSE 0)

\* The synchronous next generation of a rectangular array.
Advance(a) ==
    [i \in 1..Len(a) |->
        [j \in 1..Len(a[i]) |-> Rule(a[i][j], LiveNeighbours(a, i - 1, j - 1))]]

RECURSIVE AdvanceN(_, _)
AdvanceN(a, k) == IF k = 0 THEN a ELSE AdvanceN(Advance(a), k - 1)

StepOps == {"process_step", "steps_iter", "save_iter"}

(***************************************************************************)
(* C1.  The step is synchronous: on every grid, one step (process_step     *)
(* with the reassignment of state in the drivers, update in the script)    *)
(* produces the grid whose every cell is the rule applied to that cell and *)
(* its live-neighbour count in the pre-step grid.                          *)
(***************************************************************************)
C1_StepIsSynchronous ==
    [][ /\ (op' \in {"steps_iter", "save_iter"} /\ IsRect(state))
            => (pc' # "raised" /\ state' = Advance(state))
        /\ (op' = "update") => (pc' # "raised" /\ grid' = Advance(grid)) ]_vars

\* C1, as far as it holds: a step that completes on a rectangular array is
\* synchronous, in both variants; the steps that raise are those of C4.
C1_CompletedStepsAreSynchronous ==
    [][ /\ (op' \in {"steps_iter", "save_iter"} /\ IsRect(state) /\ pc' # "raised")
            => state' = Advance(state)
        /\ (op' = "process_step" /\ IsRect(state) /\ pc' # "raised")
            => temp_state' = Advance(state)
        /\ (op' = "update") => (pc' # "raised" /\ grid' = Advance(grid)) ]_vars

(***************************************************************************)
(* C2.  On a grid of height H and width W, get_neighbors(row, col) with    *)
(* 0 <= row < H and 0 <= col < W returns the number of alive cells among   *)
(* the adjacent positions inside the grid, a number in 0..8.               *)
(***************************************************************************)
C2_NeighbourCount ==
    ( /\ q.f = "get_neighbors"
      /\ IsGrid(state, height, width)
      /\ 0 <= q.row /\ q.row < height
      /\ 0 <= q.col /\ q.col < width )
        => ( /\ ~q.err
             /\ q.val \in 0..8
             /\ q.val = LiveNeighbours(state, q.row, q.col) )

(***************************************************************************)
(* C3.  is_cell_alive returns 1 for an alive cell iff its live-neighbour   *)
(* count n is 2 or 3, and for a dead cell iff n is 3; otherwise 0; n is    *)
(* in 0..8 and the result is never outside {0, 1}.                         *)
(***************************************************************************)
C3_Rule ==
    (q.f = "is_cell_alive" /\ ~q.err)
        => LET n == get_neighbors(state, width, height, q.row, q.col).val
               alive == At2(state, q.row, q.col)
           IN  /\ n \in 0..8
               /\ q.val \in {0, 1}
               /\ alive = 1 => (q.val = 1 <=> n \in {2, 3})
               /\ alive = 0 => (q.val = 1 <=> n = 3)

\* A dead cell with exactly three live neighbours was asked about and is born.
C3_Witness ==
    /\ q.f = "is_cell_alive" /\ ~q.err
    /\ At2(state, q.row, q.col) = 0
    /\ get_neighbors(state, width, height, q.row, q.col).val = 3
    /\ q.val = 1

\* An alive cell with eight live neighbours was asked about and dies.
C3_WitnessCrowded ==
    /\ q.f = "is_cell_alive" /\ ~q.err
    /\ At2(state, q.row, q.col) = 1
    /\ get_neighbors(state, width, height, q.row, q.col).val = 8
    /\ q.val = 0

(***************************************************************************)
(* C4.  The step is total: on a game whose state is an H x W grid (as a    *)
(* supplied state that passes validation is), square or not, process_step  *)
(* completes without an IndexError.                                        *)
(***************************************************************************)
C4_StepIsTotal ==
    [][ (op' \in StepOps /\ IsGrid(state, height, width)) => pc' # "raised" ]_vars

(***************************************************************************)
(* C5.  Grid shape invariant: after construction (random or supplied) and  *)
(* after any number of steps the grid of a game has exactly height rows of *)
(* exactly width values, each 0 or 1.                                      *)
(***************************************************************************)
C5_ShapeInvariant ==
    (prog = "game" /\ pc # "failed") => IsGrid(state, height, width)

(***************************************************************************)
(* C6.  Shape validation: when a state is supplied, construction fails     *)
(* unless the array has exactly height rows and every row has exactly      *)
(* width values; an array with zero rows fails too.                        *)
(***************************************************************************)
C6_ShapeValidation ==
    ( /\ prog = "game" /\ op = "init" /\ supplied.given
      /\ ~( /\ Len(supplied.arr) = height
            /\ \A i \in 1..Len(supplied.arr) : Len(supplied.arr[i]) = width ) )
        => pc = "failed"

(***************************************************************************)
(* C7.  Generations are immutable values: process_step does not modify     *)
(* the grid it reads, a grid a caller obtained from process_step is not    *)
(* changed by any later step, and neither is a grid already stored in the  *)
(* list of process_steps_and_save_states.                                  *)
(***************************************************************************)
C7_GenerationsImmutable ==
    [][ /\ (op' = "process_step") => state' = state
        /\ ret => temp_state' = temp_state
        /\ (pc = "save" /\ pc' = "save")
            => \A i \in 1..Len(states) : Len(states') >= i /\ states'[i] = states[i] ]_vars

(***************************************************************************)
(* C8.  Multi-step driver: a run of n steps from grid g yields exactly     *)
(* n + 1 grids, element 0 being g and element k the k-th generation of g,  *)
(* both as the boards process_steps shows and as the list                  *)
(* process_steps_and_save_states collects.                                 *)
(***************************************************************************)
C8_DriverSequence ==
    /\ (pc = "steps" /\ step = num /\ IsRect(g0))
        => /\ Len(shown) = num + 1
           /\ \A k \in 0..num :
                shown[k + 1] = display_state(AdvanceN(g0, k), width, height).out
    /\ (pc = "save" /\ step = num /\ IsRect(g0))
        => /\ Len(states) = num + 1
           /\ \A k \in 0..num : states[k + 1] = AdvanceN(g0, k)

(***************************************************************************)
(* C9.  Still life: from the 4x4 block pattern the grid equals the block   *)
(* pattern after every number of steps, and no step raises.                *)
(***************************************************************************)
C9_BlockIsStill ==
    (pattern = "block")
        => /\ state = PatternState("block")
           /\ pc \notin {"failed", "raised"}
           /\ \A i \in 1..Len(states) : states[i] = PatternState("block")

\* The block has been through the three steps of its test and has not changed.
C9_Witness ==
    /\ pattern = "block" /\ pc = "steps" /\ num = 3 /\ step = 3
    /\ Len(shown) = 4
    /\ state = PatternState("block")

(***************************************************************************)
(* C10.  Blinker oscillator: in a run that starts from the 5x5 vertical    *)
(* blinker the grid is the horizontal row of three after every odd number  *)
(* of steps and the vertical blinker after every even number; between     *)
(* runs the grid is one of the two, and no step raises.                    *)
(***************************************************************************)
Horizontal ==
    << <<0, 0, 0, 0, 0>>,
       <<0, 0, 0, 0, 0>>,
       <<0, 1, 1, 1, 0>>,
       <<0, 0, 0, 0, 0>>,
       <<0, 0, 0, 0, 0>> >>

C10_BlinkerPeriodTwo ==
    (pattern = "blinker")
        => /\ pc \notin {"failed", "raised"}
           /\ state \in {PatternState("blinker"), Horizontal}
           /\ (pc \in {"steps", "save"} /\ g0 = PatternState("blinker"))
                => state = IF step % 2 = 0 THEN PatternState("blinker") ELSE Horizontal
           /\ (pc \in {"steps", "save"} /\ g0 = Horizontal)
                => state = IF step % 2 = 0 THEN Horizontal ELSE PatternState("blinker")
           /\ (pc = "save")
                => \A i \in 1..Len(states) :
                      states[i] = IF (g0 = Horizontal) = (i % 2 = 0)
                                  THEN Horizontal ELSE PatternState("blinker")

\* The blinker has been through the four steps of its test: horizontal after the
\* third, vertical again after the fourth.
C10_Witness ==
    /\ pattern = "blinker" /\ pc = "steps" /\ num = 4 /\ step = 4
    /\ g0 = PatternState("blinker")
    /\ state = PatternState("blinker")
    /\ shown[4] = display_state(Horizontal, width, height).out
    /\ shown[5] = display_state(PatternState("blinker"), width, height).out

(***************************************************************************)
(* C11.  Toad oscillator: in a run that starts from the 6x6 toad of the    *)
(* test the grid equals the toad after two steps and after every even      *)
(* number of steps (the test runs four); after an odd number it is the     *)
(* toad's other phase, and no step raises.                                 *)
(***************************************************************************)
ToadOther ==
    << <<0, 0, 0, 0, 0, 0>>,
       <<0, 0, 0, 1, 0, 0>>,
       <<0, 1, 0, 0, 1, 0>>,
       <<0, 1, 0, 0, 1, 0>>,
       <<0, 0, 1, 0, 0, 0>>,
       <<0, 0, 0, 0, 0, 0>> >>

C11_ToadPeriodTwo ==
    (pattern = "toad")
        => /\ pc \notin {"failed", "raised"}
           /\ state \in {PatternState("toad"), ToadOther}
           /\ (pc \in {"steps", "save"} /\ g0 = PatternState("toad"))
                => state = IF step % 2 = 0 THEN PatternState("toad") ELSE ToadOther
           /\ (pc \in {"steps", "save"} /\ g0 = ToadOther)
                => state = IF step % 2 = 0 THEN ToadOther ELSE PatternState("toad")

\* The toad has been through the four steps of its test and is the toad again;
\* the board shown after the second step is the toad's too.
C11_Witness ==
    /\ pattern = "toad" /\ pc = "steps" /\ num = 4 /\ step = 4
    /\ g0 = PatternState("toad")
    /\ state = PatternState("toad")
    /\ shown[3] = display_state(PatternState("toad"), width, height).out
    /\ shown[2] = display_state(ToadOther, width, height).out

(***************************************************************************)
(* C12.  Determinism: two games constructed from the same supplied grid    *)
(* agree after every number of steps, whatever direct calls of             *)
(* process_step one of them has seen in between (if one raises in a step,  *)
(* the other cannot complete that step), and a second direct call of       *)
(* process_step without a reassignment of state returns a grid equal to    *)
(* the first.                                                              *)
(***************************************************************************)
C12_Deterministic ==
    twin.made
        => /\ (pc = "idle" /\ twin.pc = "idle" /\ step = twin.step) => state = twin.state
           /\ (pc = "raised") => twin.step <= step
           /\ (twin.pc = "raised") => step <= twin.step
           /\ (twin.pc = "idle" /\ twin.calls = 2) => twin.temp_state = twin.first

\* Both games have taken two steps and hold the same grid, which is not the
\* supplied one; the twin has since called process_step twice, so its temp_state
\* differs from the first game's.
C12_Witness ==
    /\ twin.made /\ pc = "idle" /\ twin.pc = "idle"
    /\ step = 2 /\ twin.step = 2
    /\ state = twin.state
    /\ twin.calls = 2
    /\ twin.temp_state # temp_state
    /\ twin.temp_state = twin.first

(***************************************************************************)
(* C13.  On a 1x1 board every step, from [[1]] and from [[0]] alike,       *)
(* returns [[0]] without raising: all eight neighbour positions are out of *)
(* bounds, so the count is 0; a driver's step leaves [[0]] in state.       *)
(***************************************************************************)
C13_SingleCell ==
    [][(prog = "game" /\ width = 1 /\ height = 1 /\ op' \in StepOps)
          => /\ state \in {<< <<1>> >>, << <<0>> >>}
             /\ \A p \in indices(0, 0) :
                   ~(0 <= p[1] /\ p[1] < width /\ 0 <= p[2] /\ p[2] < height)
             /\ get_neighbors(state, width, height, 0, 0) = [err |-> FALSE, val |-> 0]
             /\ pc' # "raised"
             /\ temp_state' = << <<0>> >>
             /\ (op' \in {"steps_iter", "save_iter"}) => state' = << <<0>> >>]_vars

\* process_step has just returned [[0]] on the board [[1]].
C13_Witness ==
    /\ prog = "game" /\ width = 1 /\ height = 1
    /\ op = "process_step" /\ pc = "idle"
    /\ state = << <<1>> >>
    /\ temp_state = << <<0>> >>

(***************************************************************************)
(* C14.  Out-of-range coordinates are a checked precondition: a direct     *)
(* call of is_cell_alive(row, col) or get_neighbors(row, col) with row or  *)
(* col negative or beyond the grid's extent on that axis ends in an error  *)
(* and returns no value.                                                   *)
(***************************************************************************)
C14_CoordinatesChecked ==
    (q.f # "none" /\ (q.row < 0 \/ q.col < 0 \/ q.row >= height \/ q.col >= width))
        => q.err

(***************************************************************************)
(* C15.  The two engines agree on square grids: every step of a Game with  *)
(* width = height on an n x n grid returns the grid the script's update    *)
(* computes from the same grid, and every update of the script produces    *)
(* the grid Game.process_step computes from the same grid; neither raises. *)
(* Agreement after any number of steps follows, each step starting from    *)
(* equal grids.                                                            *)
(***************************************************************************)
C15_VariantsAgree ==
    [][/\ (prog = "game" /\ width = height /\ IsGrid(state, height, width)
              /\ op' \in StepOps)
          => LET u == update(state, height, width)
             IN  ~u.err /\ pc' # "raised" /\ temp_state' = u.temp
       /\ (prog = "anim" /\ op' = "update")
          => LET r == process_step(grid, deepcopy(grid), w, h)
             IN  w = h /\ ~r.err /\ pc' # "raised" /\ grid' = r.temp]_vars

\* process_step has just returned, on a 3x3 game, a grid with live cells that
\* differs from state and is the one update computes from state.
C15_Witness ==
    /\ prog = "game" /\ width = 3 /\ height = 3 /\ IsGrid(state, 3, 3)
    /\ op = "process_step" /\ pc = "idle"
    /\ temp_state # state
    /\ \E i \in 1..3, j \in 1..3 : temp_state[i][j] = 1
    /\ temp_state = update(state, height, width).temp

(***************************************************************************)
(* C16.  The random-generation path is consistent for every width and      *)
(* height: a game constructed without a state holds, after any number of   *)
(* steps, state and temp_state of shape (width, height); no operation      *)
(* raises; the sweep of process_step visits positions of that shape only,  *)
(* each exactly once; and every neighbour position that passes the bounds  *)
(* test is a position of state, reached without wraparound.                *)
(***************************************************************************)
C16_RandomPathConsistent ==
    LET visited == [k \in 0..(width * height - 1) |-> process_step_cell(height, k)]
        cells == (0..(width - 1)) \X (0..(height - 1))
    IN  /\ pc \notin {"failed", "raised"}
        /\ IsGrid(state, width, height)
        /\ IsGrid(temp_state, width, height)
        /\ \A k \in DOMAIN visited : visited[k] \in cells
        /\ \A c \in cells : Cardinality({ k \in DOMAIN visited : visited[k] = c }) = 1
        /\ \A c \in cells : \A p \in indices(c[1], c[2]) :
              (0 <= p[1] /\ p[1] < width /\ 0 <= p[2] /\ p[2] < height)
                  => p[1] < Len(state) /\ p[2] < Len(state[p[1] + 1])
        /\ ~process_step(state, temp_state, width, height).err
        /\ (op = "process_step") => temp_state = Advance(state)

\* A non-square generated game at the end of a two-step run of process_steps that
\* changed its grid.
C16_Witness ==
    /\ prog = "game" /\ supplied = NoState /\ pattern = "none"
    /\ width # height
    /\ pc = "steps" /\ num = 2 /\ step = 2
    /\ IsGrid(state, width, height) /\ Len(state) # Len(state[1])
    /\ state # g0
    /\ \E i \in 1..width, j \in 1..height : state[i][j] = 1

====
